---- MODULE Spec2Model ----
(***************************************************************************)
(* Model of package entitycoll (src/entitycoll.go, the current file that   *)
(* starts at line 166): the query-filter parser (popSort, popFilter, pop), *)
(* the identifier-path parser (getPathComponentUuids), the route resolver  *)
(* (RootApiHandler over entityServeMux) and the handlers CreateApiObject   *)
(* registers (applyCorsHeaders, applySecurity, getPluralHandler,           *)
(* getSingularHandler). Spec serves one request at a time; SpecConc runs    *)
(* the same handler steps on several goroutines at once.                   *)
(*                                                                         *)
(* Go strings are TLA+ strings; s[:n] is SubSeq(s, 1, n) and panics when   *)
(* n > len(s), which every operator below tracks in a "panicked" field.    *)
(***************************************************************************)
EXTENDS Integers, Sequences, FiniteSets, TLC

VARIABLES
    query,          \* pop's input: the request's query parameters, in URL order
    popOut,         \* what pop left behind: NotRun or its outcome
    urlPath,        \* getPathComponentUuids' input path
    pathOut,        \* NotRun or what getPathComponentUuids returned
    entityServeMux, \* the patterns registered on the package's ServeMux
    getRequestor,   \* the identity-resolver function variable: "nil" or "set"
    serving,        \* setup is over, requests are being served
    req,            \* the request in flight (NoReq when there is none)
    pc,             \* which handler of the chain runs next for req
    ctx,            \* the request context's requestorKey value
    calls,          \* entity-collection operations invoked for req, in order
    resp,           \* the response written so far
    inflight,       \* the requests being handled concurrently, by goroutine
    urls            \* the url.URL objects the requests in inflight point to

filterVars == <<query, popOut>>
pathVars == <<urlPath, pathOut>>
serverVars == <<entityServeMux, getRequestor, serving, req, pc, ctx, calls, resp>>
concVars == <<inflight, urls>>
vars == <<query, popOut, urlPath, pathOut, entityServeMux, getRequestor, serving,
          req, pc, ctx, calls, resp, inflight, urls>>

----------------------------------------------------------------------------
(* Strings *)

Char(s, i) == SubSeq(s, i, i)

Range(f) == {f[i] : i \in DOMAIN f}

\* s[n:], for n <= len(s)
SliceFrom(s, n) == SubSeq(s, n + 1, Len(s))

\* s[:n], for n <= len(s)
SliceTo(s, n) == SubSeq(s, 1, n)

\* index of the first occurrence of the one-character sep in s, 0 if none
IndexOf(s, sep) ==
    IF \E i \in 1..Len(s) : Char(s, i) = sep
    THEN CHOOSE i \in 1..Len(s) :
             /\ Char(s, i) = sep
             /\ \A j \in 1..(i - 1) : Char(s, j) # sep
    ELSE 0

\* strings.HasPrefix(s, p)
HasPrefix(s, p) == Len(s) >= Len(p) /\ SliceTo(s, Len(p)) = p

RECURSIVE Split(_, _)
\* strings.Split(s, sep) for a one-character sep: "" splits into <<"">>
Split(s, sep) ==
    LET i == IndexOf(s, sep)
    IN  IF i = 0 THEN <<s>>
        ELSE <<SliceTo(s, i - 1)>> \o Split(SliceFrom(s, i), sep)

Digits == "0123456789"

IsDigit(c) == \E d \in 1..10 : Char(Digits, d) = c

DigitVal(c) == (CHOOSE d \in 1..10 : Char(Digits, d) = c) - 1

AllDigits(s) == \A i \in 1..Len(s) : IsDigit(Char(s, i))

RECURSIVE DecVal(_)
DecVal(s) ==
    IF Len(s) = 0 THEN 0
    ELSE DecVal(SliceTo(s, Len(s) - 1)) * 10 + DigitVal(Char(s, Len(s)))

\* strconv.ParseInt(s, 10, 64): an optional sign, then one or more digits; a
\* syntax error returns 0. (The inputs of this model have at most two digits,
\* so the range error of a 64-bit value cannot occur.)
ParseInt(s) ==
    LET signed == Len(s) > 0 /\ Char(s, 1) \in {"+", "-"}
        digits == IF signed THEN SliceFrom(s, 1) ELSE s
    IN  IF Len(digits) = 0 \/ ~AllDigits(digits)
        THEN [err |-> TRUE, val |-> 0]
        ELSE [err |-> FALSE,
              val |-> IF signed /\ Char(s, 1) = "-" THEN 0 - DecVal(digits)
                      ELSE DecVal(digits)]

\* strconv.ParseUint(s, 10, 64): one or more digits, no sign
ParseUint(s) ==
    IF Len(s) = 0 \/ ~AllDigits(s)
    THEN [err |-> TRUE, val |-> 0]
    ELSE [err |-> FALSE, val |-> DecVal(s)]

----------------------------------------------------------------------------
(* Query-filter parser *)

ASC == 0
DESC == 1

LT == 0
LTEQ == 1
EQ == 2
GT == 3
GTEQ == 4

\* *int64 / *uint64
Nil == [isNil |-> TRUE]
Ptr(v) == [isNil |-> FALSE, val |-> v]

SortObj(o, f) == [SortOrder |-> o, FieldName |-> f]
PropFilterObj(c, k, v) == [Comp |-> c, FieldName |-> k, Value |-> v]

\* var cf CollFilter
ZeroCollFilter == [Page |-> Nil, Count |-> Nil, Sort |-> <<>>, PropFilters |-> <<>>]

\* the running state of a parse: the filter, the warnings logged, and
\* whether a slice expression panicked (the call then never returns)
ParseStart == [cf |-> ZeroCollFilter, warnings |-> 0, panicked |-> FALSE]

Warn(st) == [st EXCEPT !.warnings = @ + 1]
Panic(st) == [st EXCEPT !.panicked = TRUE]

\* one iteration of popSort's loop, on element ss
popSortElem(st, ss) ==
    IF Len(ss) < 4 THEN Panic(st)
    ELSE IF SliceTo(ss, 4) = "asc."
    THEN [st EXCEPT !.cf.Sort = Append(@, SortObj(ASC, SliceFrom(ss, 4)))]
    ELSE IF Len(ss) < 5 THEN Panic(st)
    ELSE IF SliceTo(ss, 5) = "desc."
    THEN [st EXCEPT !.cf.Sort = Append(@, SortObj(DESC, SliceFrom(ss, 5)))]
    ELSE Warn(st)

RECURSIVE popSortLoop(_, _, _)
popSortLoop(st, elems, i) ==
    IF st.panicked \/ i > Len(elems) THEN st
    ELSE popSortLoop(popSortElem(st, elems[i]), elems, i + 1)

popSort(st, sortString) == popSortLoop(st, Split(sortString, ","), 1)

\* one iteration of popFilter's inner loop, on value v of key k
popFilterValue(st, k, v) ==
    IF Len(v) < 3 THEN Panic(st)
    ELSE IF SliceTo(v, 3) = "lt."
    THEN [st EXCEPT !.cf.PropFilters = Append(@, PropFilterObj(LT, k, SliceTo(v, 3)))]
    ELSE IF Len(v) < 5 THEN Panic(st)
    ELSE IF SliceTo(v, 5) = "lteq."
    THEN [st EXCEPT !.cf.PropFilters = Append(@, PropFilterObj(LTEQ, k, SliceTo(v, 5)))]
    ELSE IF SliceTo(v, 3) = "eq."
    THEN [st EXCEPT !.cf.PropFilters = Append(@, PropFilterObj(EQ, k, SliceTo(v, 3)))]
    ELSE IF SliceTo(v, 3) = "gt."
    THEN [st EXCEPT !.cf.PropFilters = Append(@, PropFilterObj(GT, k, SliceTo(v, 3)))]
    ELSE IF SliceTo(v, 5) = "gteq."
    THEN [st EXCEPT !.cf.PropFilters = Append(@, PropFilterObj(GTEQ, k, SliceTo(v, 5)))]
    ELSE Warn(st)

RECURSIVE popFilterValues(_, _, _, _)
popFilterValues(st, k, va, i) ==
    IF st.panicked \/ i > Len(va) THEN st
    ELSE popFilterValues(popFilterValue(st, k, va[i]), k, va, i + 1)

RECURSIVE popFilterKeys(_, _, _, _)
popFilterKeys(st, filterQuery, order, i) ==
    IF st.panicked \/ i > Len(order) THEN st
    ELSE popFilterKeys(popFilterValues(st, order[i], filterQuery[order[i]], 1),
                       filterQuery, order, i + 1)

\* popFilter ranges over a Go map: order is the iteration order of its keys
popFilter(st, filterQuery, order) == popFilterKeys(st, filterQuery, order, 1)

\* the sequences that list every element of the finite set S exactly once
Orders(S) ==
    {o \in [1..Cardinality(S) -> S] : \A i, j \in 1..Cardinality(S) : o[i] = o[j] => i = j}

\* r.URL.Query(): url.Values, each key mapped to its values in URL order
Query(params) ==
    [k \in {p[1] : p \in Range(params)} |->
        LET mine == SelectSeq(params, LAMBDA p : p[1] = k)
        IN  [i \in 1..Len(mine) |-> mine[i][2]]]

\* delete(q, k)
Delete(q, k) == [x \in DOMAIN q \ {k} |-> q[x]]

popPage(st, q) ==
    IF "page" \in DOMAIN q
    THEN LET p == ParseInt(q["page"][1])
             w == IF p.err THEN Warn(st) ELSE st
         IN  [w EXCEPT !.cf.Page = Ptr(p.val)]
    ELSE st

popCount(st, q) ==
    IF "count" \in DOMAIN q
    THEN LET c == ParseUint(q["count"][1])
             w == IF c.err THEN Warn(st) ELSE st
         IN  [w EXCEPT !.cf.Count = Ptr(c.val)]
    ELSE st

\* the keys popFilter is handed: q after the three deletes
FilterQuery(params) == Delete(Delete(Delete(Query(params), "page"), "count"), "sort")

\* cf.pop(r) on a zero CollFilter; order is the iteration order of popFilter's
\* map range. The outcome carries err (always nil) when the call returns.
pop(params, order) ==
    LET q == Query(params)
        s1 == popCount(popPage(ParseStart, q), q)
        s2 == IF "sort" \in DOMAIN q THEN popSort(s1, q["sort"][1]) ELSE s1
        s3 == IF s2.panicked THEN s2 ELSE popFilter(s2, FilterQuery(params), order)
    IN  [ran |-> TRUE, panicked |-> s3.panicked, err |-> "nil",
         cf |-> s3.cf, warnings |-> s3.warnings]

NotRun == [ran |-> FALSE]

----------------------------------------------------------------------------
(* Identifier-path parser *)

HexLower == "0123456789abcdef"
HexUpper == "0123456789ABCDEF"

IsHex(c) == \E d \in 1..16 : Char(HexLower, d) = c \/ Char(HexUpper, d) = c

LowerChar(c) ==
    IF \E d \in 1..16 : Char(HexUpper, d) = c
    THEN Char(HexLower, CHOOSE d \in 1..16 : Char(HexUpper, d) = c)
    ELSE c

RECURSIVE Lower(_)
Lower(s) ==
    IF Len(s) = 0 THEN s
    ELSE Lower(SliceTo(s, Len(s) - 1)) \o LowerChar(Char(s, Len(s)))

\* the canonical text form xxxxxxxx-xxxx-xxxx-xxxx-xxxxxxxxxxxx
IsCanonicalUuid(s) ==
    /\ Len(s) = 36
    /\ \A i \in 1..36 :
           IF i \in {9, 14, 19, 24} THEN Char(s, i) = "-" ELSE IsHex(Char(s, i))

\* uuid.Nil
UuidNil == "00000000-0000-0000-0000-000000000000"

\* uuid.FromString(s): a UUID value is written as its String(), the canonical
\* lower-case text, so parsing is case-folding and not the identity. The
\* library also reads braced, URN and hash-like texts; the inputs of this
\* model hold canonical texts and texts shorter than any accepted form.
FromString(s) ==
    IF IsCanonicalUuid(s) THEN [err |-> FALSE, uuid |-> Lower(s)]
    ELSE [err |-> TRUE, uuid |-> UuidNil]

\* map[string]uuid.UUID{}
EmptyMap == [k \in {} |-> UuidNil]

\* m[k] = u
MapPut(m, k, u) == [x \in DOMAIN m \cup {k} |-> IF x = k THEN u ELSE m[x]]

NilError == [kind |-> "nil"]
pathComponentError(path) == [kind |-> "pathComponentError", path |-> path]
parseUUIDError(pathComponent) ==
    [kind |-> "parseUUIDError", pathComponent |-> pathComponent]

\* strings.Split(path, "/")[1:]
PathComponents(path) == Tail(Split(path, "/"))

RECURSIVE ParentUuidsLoop(_, _, _)
\* the loop of getPathComponentUuids from pair i (1-based index of its name)
ParentUuidsLoop(parentEntityUuids, pathComponents, i) ==
    IF i > Len(pathComponents) - 1
    THEN [ran |-> TRUE, uuids |-> parentEntityUuids, err |-> NilError]
    ELSE LET parsed == FromString(pathComponents[i + 1])
         IN  IF parsed.err
             THEN [ran |-> TRUE, uuids |-> EmptyMap,
                   err |-> parseUUIDError(pathComponents[i])]
             ELSE ParentUuidsLoop(MapPut(parentEntityUuids, pathComponents[i], parsed.uuid),
                                  pathComponents, i + 2)

RECURSIVE PartialUuidsLoop(_, _, _)
\* as ParentUuidsLoop, but an invalid identifier returns the map built so far
PartialUuidsLoop(parentEntityUuids, pathComponents, i) ==
    IF i > Len(pathComponents) - 1
    THEN [ran |-> TRUE, uuids |-> parentEntityUuids, err |-> NilError]
    ELSE LET parsed == FromString(pathComponents[i + 1])
         IN  IF parsed.err
             THEN [ran |-> TRUE, uuids |-> parentEntityUuids,
                   err |-> parseUUIDError(pathComponents[i])]
             ELSE PartialUuidsLoop(MapPut(parentEntityUuids, pathComponents[i], parsed.uuid),
                                   pathComponents, i + 2)

RECURSIVE FirstWinsLoop(_, _, _)
\* as ParentUuidsLoop, but a name already in the map keeps its identifier
FirstWinsLoop(parentEntityUuids, pathComponents, i) ==
    IF i > Len(pathComponents) - 1
    THEN [ran |-> TRUE, uuids |-> parentEntityUuids, err |-> NilError]
    ELSE LET parsed == FromString(pathComponents[i + 1])
         IN  IF parsed.err
             THEN [ran |-> TRUE, uuids |-> EmptyMap,
                   err |-> parseUUIDError(pathComponents[i])]
             ELSE FirstWinsLoop(
                      IF pathComponents[i] \in DOMAIN parentEntityUuids
                      THEN parentEntityUuids
                      ELSE MapPut(parentEntityUuids, pathComponents[i], parsed.uuid),
                      pathComponents, i + 2)

\* getPathComponentUuids without its segment-count check
getPathComponentUuidsNoShapeCheck(path) ==
    ParentUuidsLoop(EmptyMap, PathComponents(path), 1)

\* getPathComponentUuids returning the partial map with a parseUUIDError
getPathComponentUuidsPartial(path) ==
    LET pathComponents == PathComponents(path)
    IN  IF Len(pathComponents) % 2 # 1
        THEN [ran |-> TRUE, uuids |-> EmptyMap, err |-> pathComponentError(path)]
        ELSE PartialUuidsLoop(EmptyMap, pathComponents, 1)

\* getPathComponentUuids keeping the first identifier of a repeated name
getPathComponentUuidsFirstWins(path) ==
    LET pathComponents == PathComponents(path)
    IN  IF Len(pathComponents) % 2 # 1
        THEN [ran |-> TRUE, uuids |-> EmptyMap, err |-> pathComponentError(path)]
        ELSE FirstWinsLoop(EmptyMap, pathComponents, 1)

getPathComponentUuids(path) ==
    LET pathComponents == PathComponents(path)
    IN  IF Len(pathComponents) % 2 # 1
        THEN [ran |-> TRUE, uuids |-> EmptyMap, err |-> pathComponentError(path)]
        ELSE ParentUuidsLoop(EmptyMap, pathComponents, 1)

----------------------------------------------------------------------------
(* Inputs of the identifier-path parser *)

MaxSegs == 5

Uuid1 == "6ba7b810-9dad-11d1-80b4-00c04fd430c8"
Uuid2 == "6BA7B811-9DAD-11D1-80B4-00C04FD430C8"

\* names, identifiers, a text that is no UUID, and the empty segment
Segments == {"foo", "bar", Uuid1, Uuid2, "42", ""}

RECURSIVE JoinPath(_)
\* "/" before every segment
JoinPath(segs) ==
    IF Len(segs) = 0 THEN ""
    ELSE JoinPath(SubSeq(segs, 1, Len(segs) - 1)) \o "/" \o segs[Len(segs)]

\* every path of 1..MaxSegs segments, the empty path, and one with no
\* leading slash
PathInputs ==
    {JoinPath(segs) : segs \in UNION {[1..n -> Segments] : n \in 1..MaxSegs}}
        \cup {"", "foo"}

----------------------------------------------------------------------------
(* Inputs of the query-filter parser *)

MaxParams == 2

PageValues == {"2", "-1", "abc"}
CountValues == {"10", "-1"}
SortValues == {"asc.name,desc.age", "desc.age,asc.name", "bogus.name", "up",
               "asc.name,,desc.age"}
FilterKeys == {"status", "x"}
FilterValues == {"eq.active", "lt.5", "lteq.5", "gt.77", "gteq.5", "eq.5", "a",
                 "bogus"}

Params ==
    ({"page"} \X PageValues) \cup ({"count"} \X CountValues)
        \cup ({"sort"} \X SortValues) \cup (FilterKeys \X FilterValues)

\* ?page=2&count=10&sort=asc.name,desc.age&status=eq.active
ExampleQuery ==
    << <<"page", "2">>, <<"count", "10">>, <<"sort", "asc.name,desc.age">>,
       <<"status", "eq.active">> >>

QueryInputs ==
    UNION {[1..n -> Params] : n \in 0..MaxParams} \cup {ExampleQuery}

\* the state of the other components while one parser is exercised alone
FilterIdle == query = <<>> /\ popOut = NotRun
PathIdle == urlPath = "" /\ pathOut = NotRun

NoReq == [present |-> FALSE]
NoResp == [status |-> 0]

ServerIdle ==
    /\ entityServeMux = {}
    /\ getRequestor = "nil"
    /\ serving = FALSE
    /\ req = NoReq
    /\ pc = "setup"
    /\ ctx = Nil
    /\ calls = <<>>
    /\ resp = NoResp

\* no request is being handled concurrently
ConcIdle == inflight = <<>> /\ urls = <<>>

InitFilter ==
    query \in QueryInputs /\ popOut = NotRun /\ PathIdle /\ ServerIdle /\ ConcIdle

\* the handler calls cf.pop(r) on the request's query
Pop ==
    /\ ~popOut.ran
    /\ \E order \in Orders(DOMAIN FilterQuery(query)) : popOut' = pop(query, order)
    /\ UNCHANGED <<query, pathVars, serverVars, concVars>>

NextFilter == Pop

SpecFilter == InitFilter /\ [][NextFilter]_vars

InitPath ==
    urlPath \in PathInputs /\ pathOut = NotRun /\ FilterIdle /\ ServerIdle /\ ConcIdle

\* the plural handler calls getPathComponentUuids(r.URL.Path)
ParsePath ==
    /\ ~pathOut.ran
    /\ pathOut' = getPathComponentUuids(urlPath)
    /\ UNCHANGED <<urlPath, filterVars, serverVars, concVars>>

NextPath == ParsePath

SpecPath == InitPath /\ [][NextPath]_vars

----------------------------------------------------------------------------
(* Route table and requests *)

\* the rest names of the entity collections the program may register
RestNames == {"widgets", "gadgets"}

MethodGet == "GET"
MethodPut == "PUT"
MethodPost == "POST"
MethodDelete == "DELETE"
MethodOptions == "OPTIONS"

\* the methods of incoming requests: the five of the interface and one other
Methods == {MethodGet, MethodPut, MethodPost, MethodDelete, MethodOptions, "PATCH"}

\* r.BasicAuth(): no Authorization header, or a user name and password
NoAuth == [ok |-> FALSE]
BasicAuth(uname, pword) == [ok |-> TRUE, uname |-> uname, pword |-> pword]

AuthInputs == {NoAuth, BasicAuth("alice", "wonderland"), BasicAuth("mallory", "guess")}

\* the function SetRequestorAuthFn installs: it knows alice and nobody else
Resolver(uname, pword) ==
    IF uname = "alice" /\ pword = "wonderland"
    THEN [err |-> FALSE, requestor |-> Ptr("alice")]
    ELSE [err |-> TRUE, requestor |-> Nil]

MaxReqSegs == 3

ReqSegments == {"widgets", "gadgets", "unknown", Uuid1}

\* request paths: 1..MaxReqSegs segments, the root, a trailing slash, and
\* the empty path of a request line with an absolute URI and no path
ReqPaths ==
    {JoinPath(segs) : segs \in UNION {[1..n -> ReqSegments] : n \in 1..MaxReqSegs}}
        \cup {"", "/", "/widgets/"}

ReqQueries == {<<>>, ExampleQuery, << <<"x", "a">> >>}

ReqBody == "{\"name\":\"w\"}"

\* a request as the server hands it to RootApiHandler: Path is r.URL.Path,
\* RequestURI the path of the request line as the client sent it, which
\* handling never writes; bodyRead tells whether r.Body has been read, and
\* route which handler the request was served by
Request(method, path, params, auth) ==
    [present |-> TRUE, Method |-> method, Path |-> path, RequestURI |-> path,
     Params |-> params, Auth |-> auth, Body |-> ReqBody, bodyRead |-> "unread",
     route |-> [kind |-> "none"]]

Requests ==
    {Request(method, path, params, auth) :
        method \in Methods, path \in ReqPaths, params \in ReqQueries, auth \in AuthInputs}

\* w.Header().Add(k, v)
HeaderAdd(h, k, v) ==
    [x \in DOMAIN h \cup {k} |->
        IF x = k THEN (IF k \in DOMAIN h THEN Append(h[k], v) ELSE <<v>>) ELSE h[x]]

\* w.Header().Set(k, v)
HeaderSet(h, k, v) == [x \in DOMAIN h \cup {k} |-> IF x = k THEN <<v>> ELSE h[x]]

NoHeaders == [k \in {} |-> <<>>]
NoBody == [kind |-> "none"]

\* the response of a request being handled: nothing written yet
FreshResp == [status |-> 0, headers |-> NoHeaders, body |-> NoBody, aborted |-> FALSE]

StatusOK == 200
StatusCreated == 201
StatusMovedPermanently == 301
StatusBadRequest == 400
StatusUnauthorized == 401
StatusForbidden == 403
StatusNotFound == 404
StatusInternalServerError == 500

\* w.Header().Set(k, v) on the response
HeaderOnly(rs, k, v) == [rs EXCEPT !.headers = HeaderSet(@, k, v)]

\* http.Error(w, text, code)
HttpError(rs, text, code) ==
    [rs EXCEPT !.status = code, !.body = [kind |-> "error", text |-> text]]

\* fmt.Fprint(w, json): the first write sends status 200
WriteJson(rs, kind) == [rs EXCEPT !.status = StatusOK, !.body = [kind |-> kind]]

\* a handler returning with nothing written: net/http sends status 200
ImplicitOK(rs) == IF rs.status = 0 THEN [rs EXCEPT !.status = StatusOK] ELSE rs

\* a panic unwinds the handler: net/http recovers it and drops the
\* connection without a response
Aborted(rs) == [rs EXCEPT !.aborted = TRUE]

\* the local variables of RootApiHandler before its first statement
NoLocals == [pathBu |-> "", pathComponents |-> <<>>, h |-> [kind |-> "none"], pattern |-> ""]

\* the state one request's handling reads and writes: root holds the local
\* variables of RootApiHandler
Handling ==
    [req |-> req, pc |-> pc, ctx |-> ctx, calls |-> calls, resp |-> resp, root |-> NoLocals]

Finished(st, rs) == [st EXCEPT !.pc = "done", !.resp = ImplicitOK(rs)]
Panicked(st) == [st EXCEPT !.pc = "done", !.resp = Aborted(st.resp)]

----------------------------------------------------------------------------
(* Route resolver *)

\* path.Clean inside net/http's cleanPath, on paths whose segments are never
\* "." or "..": empty segments go, and so does a trailing slash
CleanSegments(p) == SelectSeq(Split(p, "/"), LAMBDA seg : seg # "")

\* net/http cleanPath(p)
cleanPath(p) ==
    IF p = "" THEN "/"
    ELSE LET rooted == IF Char(p, 1) # "/" THEN "/" \o p ELSE p
             np == IF Len(CleanSegments(rooted)) = 0 THEN "/"
                   ELSE JoinPath(CleanSegments(rooted))
         IN  IF Char(rooted, Len(rooted)) = "/" /\ np # "/" THEN np \o "/" ELSE np

\* ServeMux's match: the pattern equal to path, else the longest registered
\* pattern ending in "/" that path starts with, else none ("")
MuxMatch(mux, path) ==
    IF path \in mux THEN path
    ELSE LET roots == {pt \in mux : Char(pt, Len(pt)) = "/" /\ HasPrefix(path, pt)}
         IN  IF roots = {} THEN ""
             ELSE CHOOSE pt \in roots : \A o \in roots : Len(o) <= Len(pt)

\* entityServeMux.Handler(r) for a request that is not CONNECT, r.URL.Path
\* being path: a path that is not clean gets a redirect handler to the clean
\* path, with the pattern the clean path matches
MuxHandler(mux, path) ==
    IF cleanPath(path) # path
    THEN [h |-> [kind |-> "redirect", to |-> cleanPath(path)],
          pattern |-> MuxMatch(mux, cleanPath(path))]
    ELSE IF MuxMatch(mux, path) = ""
    THEN [h |-> [kind |-> "notfound"], pattern |-> ""]
    ELSE [h |-> [kind |-> "registered", pattern |-> MuxMatch(mux, path)],
          pattern |-> MuxMatch(mux, path)]

\* the handler CreateApiObject registered under pattern: "/name" is the
\* collection's plural handler, "/name/" its singular handler
RouteOf(pattern) ==
    IF Char(pattern, Len(pattern)) = "/"
    THEN [kind |-> "singular", ec |-> SubSeq(pattern, 2, Len(pattern) - 1)]
    ELSE [kind |-> "plural", ec |-> SliceFrom(pattern, 1)]

\* h.ServeHTTP(w, r) for the handler a mux search returned; r.URL.Path has
\* been set back to pathBu
ServeFound(st, h) ==
    CASE h.kind = "registered" ->
             [st EXCEPT !.pc = "cors", !.req.route = RouteOf(h.pattern)]
      [] h.kind = "notfound" ->
             [st EXCEPT !.pc = "done", !.req.route = [kind |-> "notfound"],
                        !.resp = HttpError(st.resp, "404 page not found", StatusNotFound)]
      [] h.kind = "redirect" ->
             [st EXCEPT !.pc = "done", !.req.route = [kind |-> "redirect"],
                        !.resp = [HeaderOnly(st.resp, "Location", h.to)
                                      EXCEPT !.status = StatusMovedPermanently]]

\* r.URL.Path = p
RewritePath(st, p) == [st EXCEPT !.req.Path = p]

\* RootApiHandler that leaves the path of the hypothesis in r.URL.Path
RestorePathOmitted(st) == st

\* r.URL.Path = pathBu
RestorePath(st) == [st EXCEPT !.req.Path = st.root.pathBu]

\* RootApiHandler up to the first search of the mux: the path is saved,
\* split, and rewritten to the first hypothesis
RootFirst(mux, st) ==
    LET pathBu == st.req.Path
        pathComponents == Split(st.req.Path, "/")
        entityName == pathComponents[Len(pathComponents)]
        rewritten == RewritePath(st, "/" \o entityName)
        found == MuxHandler(mux, rewritten.req.Path)
    IN  [rewritten EXCEPT !.pc = "root1",
                          !.root = [pathBu |-> pathBu, pathComponents |-> pathComponents,
                                    h |-> found.h, pattern |-> found.pattern]]

\* RootApiHandler from the test of the first search to the second search
RootSecond(mux, st) ==
    IF st.root.pattern # "" THEN ServeFound(RestorePath(st), st.root.h)
    ELSE IF Len(st.root.pathComponents) < 2
    THEN [Panicked(st) EXCEPT !.req.route = [kind |-> "panic"]]
    ELSE LET entityName == st.root.pathComponents[Len(st.root.pathComponents) - 1]
             rewritten == RewritePath(st, "/" \o entityName \o "/")
             found == MuxHandler(mux, rewritten.req.Path)
         IN  [rewritten EXCEPT !.pc = "root2",
                               !.root.h = found.h, !.root.pattern = found.pattern]

\* RootApiHandler from the test of the second search: found or not, the
\* path is restored and the handler the search returned serves the request
RootThird(st) == ServeFound(RestorePath(st), st.root.h)

\* RootApiHandler(w, r)
RootApiHandler(mux, st) ==
    LET second == RootSecond(mux, RootFirst(mux, st))
    IN  IF second.pc = "root2" THEN RootThird(second) ELSE second

----------------------------------------------------------------------------
(* Handlers registered by CreateApiObject *)

AllowOrigin == "http://localhost:8090"

\* the calls a request makes to its collaborators, in order
ResolverCall(auth, res) ==
    [op |-> "getRequestor", uname |-> auth.uname, pword |-> auth.pword,
     err |-> res.err, requestor |-> res.requestor]
\* the call of a handler that hands CreateEntity no body
CreateCallWithoutBody(ec, requestor, parents, body, a) ==
    [op |-> "CreateEntity", ec |-> ec, requestor |-> requestor,
     parentEntityUuids |-> parents, body |-> "",
     err |-> ~a.opOk, entityPath |-> IF a.opOk THEN a.entityPath ELSE ""]

\* every call records what the collaborator answered: a is the answer
CreateCall(ec, requestor, parents, body, a) ==
    [op |-> "CreateEntity", ec |-> ec, requestor |-> requestor,
     parentEntityUuids |-> parents, body |-> body,
     err |-> ~a.opOk, entityPath |-> IF a.opOk THEN a.entityPath ELSE ""]
GetCollectionCall(ec, parents, cf, a) ==
    [op |-> "GetCollection", ec |-> ec, parentEntityUuids |-> parents, filter |-> cf,
     err |-> ~a.opOk]
GetCall(ec, id, a) == [op |-> "GetEntity", ec |-> ec, targetUuid |-> id, err |-> ~a.opOk]
EditCall(ec, id, body, a) ==
    [op |-> "EditEntity", ec |-> ec, targetUuid |-> id, body |-> body, err |-> ~a.opOk]
DelCall(ec, id, a) == [op |-> "DelEntity", ec |-> ec, targetUuid |-> id, err |-> ~a.opOk]

EntityOps == {"CreateEntity", "GetCollection", "GetEntity", "EditEntity", "DelEntity"}

\* what the collaborators answer during one handler run: whether reading
\* the body, the entity-collection operation and json.Marshal succeed, the
\* path CreateEntity returns, and the iteration order of the query map
Answers(st) ==
    [bodyOk : BOOLEAN, opOk : BOOLEAN, marshalOk : BOOLEAN,
     entityPath : {"/" \o st.req.route.ec \o "/" \o Uuid1},
     order : Orders(DOMAIN FilterQuery(st.req.Params))]

\* getRequestorFromRequest(r)
getRequestorFromRequest(st) == st.ctx

\* ioutil.ReadAll(r.Body): the body is consumed, or the read fails
ReadAll(st, a) == [st EXCEPT !.req.bodyRead = IF a.bodyOk THEN "read" ELSE "failed"]

\* corsHandler without its OPTIONS case: a preflight request is passed on
\* like a GET
applyCorsHeadersNoPreflight(st) ==
    IF st.req.Method \in {MethodOptions, MethodGet, MethodPut, MethodPost, MethodDelete}
    THEN [st EXCEPT !.pc = "security",
                    !.resp.headers =
                        HeaderAdd(HeaderAdd(@,
                            "Access-Control-Allow-Origin", AllowOrigin),
                            "Access-Control-Expose-Headers", "Location")]
    ELSE Finished(st, st.resp)

\* corsHandler of applyCorsHeaders
applyCorsHeaders(st) ==
    IF st.req.Method = MethodOptions
    THEN Finished(st,
             [st.resp EXCEPT !.headers =
                 HeaderAdd(HeaderAdd(HeaderAdd(@,
                     "Access-Control-Allow-Origin", AllowOrigin),
                     "Access-Control-Allow-Headers", "Authorization"),
                     "Access-Control-Allow-Methods", "GET, PUT, POST, DELETE")])
    ELSE IF st.req.Method \in {MethodGet, MethodPut, MethodPost, MethodDelete}
    THEN [st EXCEPT !.pc = "security",
                    !.resp.headers =
                        HeaderAdd(HeaderAdd(@,
                            "Access-Control-Allow-Origin", AllowOrigin),
                            "Access-Control-Expose-Headers", "Location")]
    ELSE Finished(st, st.resp)

\* securityHandler of applySecurity that calls the wrapped handler whatever
\* the resolver answers
applySecurityIgnoringError(resolver, st) ==
    IF st.req.Method = MethodOptions THEN [st EXCEPT !.pc = "handler"]
    ELSE IF ~st.req.Auth.ok THEN [st EXCEPT !.pc = "handler"]
    ELSE IF resolver = "nil" THEN Panicked(st)
    ELSE LET res == Resolver(st.req.Auth.uname, st.req.Auth.pword)
         IN  [st EXCEPT !.pc = "handler", !.ctx = res.requestor,
                        !.calls = Append(@, ResolverCall(st.req.Auth, res))]

\* securityHandler of applySecurity; resolver is the getRequestor variable
applySecurity(resolver, st) ==
    IF st.req.Method = MethodOptions THEN [st EXCEPT !.pc = "handler"]
    ELSE IF ~st.req.Auth.ok
    THEN Finished(st,
             HttpError([st.resp EXCEPT !.headers =
                           HeaderAdd(HeaderAdd(@,
                               "Access-Control-Allow-Origin", AllowOrigin),
                               "WWW-Authenticate", "Basic realm=\"a\"")],
                       "", StatusUnauthorized))
    ELSE IF resolver = "nil" THEN Panicked(st)
    ELSE LET res == Resolver(st.req.Auth.uname, st.req.Auth.pword)
             called == [st EXCEPT !.calls = Append(@, ResolverCall(st.req.Auth, res))]
         IN  IF res.err
             THEN Finished(called,
                      HttpError(st.resp, "incorrect uname/pword", StatusForbidden))
             ELSE [called EXCEPT !.pc = "handler", !.ctx = res.requestor]

\* the type switch with every error falling to its default case
pathErrorResponseDefault(st, err) ==
    Finished(st, HttpError(st.resp, "unexpected error", StatusInternalServerError))

\* the plural handler's type switch on the error of getPathComponentUuids
pathErrorResponse(st, err) ==
    IF err.kind = "pathComponentError"
    THEN Finished(st, HttpError(st.resp, "invalid collection path", StatusNotFound))
    ELSE IF err.kind = "parseUUIDError"
    THEN Finished(st, HttpError(st.resp, "invalid UUID for component: " \o err.pathComponent,
                                StatusNotFound))
    ELSE Finished(st, HttpError(st.resp, "unexpected error", StatusInternalServerError))

\* the handler getPluralHandler(ec) returns
getPluralHandler(st, a) ==
    LET ec == st.req.route.ec
        parsed == getPathComponentUuids(st.req.Path)
    IN  IF parsed.err # NilError THEN pathErrorResponse(st, parsed.err)
        ELSE IF st.req.Method = MethodGet
        THEN LET popped == pop(st.req.Params, a.order)
                 called == [st EXCEPT !.calls =
                               Append(@, GetCollectionCall(ec, parsed.uuids, popped.cf, a))]
             IN  IF popped.panicked THEN Panicked(st)
                 ELSE IF ~a.opOk
                 THEN Finished(called,
                          HttpError(st.resp, "error retrieving collection", StatusNotFound))
                 ELSE IF ~a.marshalOk
                 THEN Finished(called,
                          HttpError(st.resp, "error encoding JSON", StatusInternalServerError))
                 ELSE Finished(called, WriteJson(st.resp, "collection"))
        ELSE IF st.req.Method = MethodPost
        THEN LET read == ReadAll(st, a)
                 called == [read EXCEPT !.calls =
                               Append(@, CreateCall(ec, getRequestorFromRequest(st),
                                                    parsed.uuids, st.req.Body, a))]
             IN  IF ~a.bodyOk
                 THEN Finished(read,
                          HttpError(st.resp, "error reading request body",
                                    StatusInternalServerError))
                 ELSE IF ~a.opOk
                 THEN Finished(called,
                          HttpError(st.resp, "error creating entity", StatusBadRequest))
                 ELSE Finished(called,
                          [HeaderOnly(st.resp, "Location", a.entityPath)
                               EXCEPT !.status = StatusCreated])
        ELSE Finished(st, st.resp)

\* the DELETE case with the error of DelEntity dropped
singularDeleteIgnoringError(st, a, ec, entityUuid) ==
    LET called == [st EXCEPT !.calls = Append(@, DelCall(ec, entityUuid, a))]
    IN  Finished(called, st.resp)

\* case http.MethodDelete of the singular handler
singularDelete(st, a, ec, entityUuid) ==
    LET called == [st EXCEPT !.calls = Append(@, DelCall(ec, entityUuid, a))]
    IN  IF ~a.opOk
        THEN Finished(called,
                 HttpError(st.resp, "error deleting entity", StatusInternalServerError))
        ELSE Finished(called, st.resp)

\* the handler getSingularHandler(ec) returns
getSingularHandler(st, a) ==
    LET ec == st.req.route.ec
        pathComponents == PathComponents(st.req.Path)
        parsed == FromString(pathComponents[Len(pathComponents)])
        entityUuid == parsed.uuid
    IN  IF parsed.err
        THEN Finished(st, HttpError(st.resp, "error parsing  UUID", StatusBadRequest))
        ELSE IF st.req.Method = MethodPut
        THEN LET read == ReadAll(st, a)
                 called == [read EXCEPT !.calls =
                               Append(@, EditCall(ec, entityUuid, st.req.Body, a))]
             IN  IF ~a.bodyOk
                 THEN Finished(read,
                          HttpError(st.resp, "error parsing request body",
                                    StatusInternalServerError))
                 ELSE IF ~a.opOk
                 THEN Finished(called,
                          HttpError(st.resp, "error editing entity",
                                    StatusInternalServerError))
                 ELSE Finished(called, st.resp)
        ELSE IF st.req.Method = MethodDelete
        THEN singularDelete(st, a, ec, entityUuid)
        ELSE IF st.req.Method = MethodGet
        THEN LET called == [st EXCEPT !.calls = Append(@, GetCall(ec, entityUuid, a))]
             IN  IF ~a.opOk
                 THEN Finished(called,
                          HttpError(st.resp, "could not find entity to GET",
                                    StatusBadRequest))
                 ELSE IF ~a.marshalOk
                 THEN Finished(called,
                          HttpError(st.resp, "error encoding JSON",
                                    StatusInternalServerError))
                 ELSE Finished(called, WriteJson(st.resp, "entity"))
        ELSE Finished(st, st.resp)

----------------------------------------------------------------------------
(* The server: setup, then requests handled one handler at a time *)

Init == FilterIdle /\ PathIdle /\ ServerIdle /\ ConcIdle

\* the per-request variables take the values of st
Becomes(st) ==
    /\ req' = st.req
    /\ pc' = st.pc
    /\ ctx' = st.ctx
    /\ calls' = st.calls
    /\ resp' = st.resp

\* CreateApiObject(ec): ServeMux.Handle refuses a pattern registered twice
CreateApiObject(name) ==
    /\ ~serving
    /\ ("/" \o name) \notin entityServeMux
    /\ entityServeMux' = entityServeMux \cup {"/" \o name, "/" \o name \o "/"}
    /\ UNCHANGED <<getRequestor, serving, req, pc, ctx, calls, resp, filterVars, pathVars, concVars>>

SetRequestorAuthFn ==
    /\ ~serving
    /\ getRequestor = "nil"
    /\ getRequestor' = "set"
    /\ UNCHANGED <<entityServeMux, serving, req, pc, ctx, calls, resp, filterVars, pathVars, concVars>>

\* setup ends and the server starts to accept requests
Serve ==
    /\ ~serving
    /\ serving' = TRUE
    /\ pc' = "idle"
    /\ UNCHANGED <<entityServeMux, getRequestor, req, ctx, calls, resp, filterVars, pathVars, concVars>>

\* a request arrives and is handed to RootApiHandler
Receive ==
    /\ pc = "idle"
    /\ req' \in Requests
    /\ pc' = "root"
    /\ ctx' = Nil
    /\ calls' = <<>>
    /\ resp' = FreshResp
    /\ UNCHANGED <<entityServeMux, getRequestor, serving, filterVars, pathVars, concVars>>

Root ==
    /\ pc = "root"
    /\ Becomes(RootApiHandler(entityServeMux, Handling))
    /\ UNCHANGED <<entityServeMux, getRequestor, serving, filterVars, pathVars, concVars>>

Cors ==
    /\ pc = "cors"
    /\ Becomes(applyCorsHeaders(Handling))
    /\ UNCHANGED <<entityServeMux, getRequestor, serving, filterVars, pathVars, concVars>>

Security ==
    /\ pc = "security"
    /\ Becomes(applySecurity(getRequestor, Handling))
    /\ UNCHANGED <<entityServeMux, getRequestor, serving, filterVars, pathVars, concVars>>

Plural ==
    /\ pc = "handler"
    /\ req.route.kind = "plural"
    /\ \E a \in Answers(Handling) : Becomes(getPluralHandler(Handling, a))
    /\ UNCHANGED <<entityServeMux, getRequestor, serving, filterVars, pathVars, concVars>>

Singular ==
    /\ pc = "handler"
    /\ req.route.kind = "singular"
    /\ \E a \in Answers(Handling) : Becomes(getSingularHandler(Handling, a))
    /\ UNCHANGED <<entityServeMux, getRequestor, serving, filterVars, pathVars, concVars>>

\* the response is sent and the request's state is dropped
Respond ==
    /\ pc = "done"
    /\ req' = NoReq
    /\ pc' = "idle"
    /\ ctx' = Nil
    /\ calls' = <<>>
    /\ resp' = NoResp
    /\ UNCHANGED <<entityServeMux, getRequestor, serving, filterVars, pathVars, concVars>>

Next ==
    \/ \E name \in RestNames : CreateApiObject(name)
    \/ SetRequestorAuthFn
    \/ Serve
    \/ Receive
    \/ Root
    \/ Cors
    \/ Security
    \/ Plural
    \/ Singular
    \/ Respond

Spec == Init /\ [][Next]_vars

----------------------------------------------------------------------------
(* The server handling several requests at once: net/http runs the handler  *)
(* of every connection in a goroutine of its own, and the goroutines        *)
(* interleave between the statements that read shared state                 *)

NumConc == 2

Goroutines == 1..NumConc

\* the requests the goroutines receive: plural with a parent and a filter,
\* singular, create, and an unregistered name without credentials
ConcRequests ==
    {Request(MethodGet, "/gadgets/" \o Uuid1 \o "/widgets", ExampleQuery,
             BasicAuth("alice", "wonderland")),
     Request(MethodGet, "/widgets/" \o Uuid1, <<>>, BasicAuth("alice", "wonderland")),
     Request(MethodPost, "/widgets", <<>>, BasicAuth("alice", "wonderland")),
     Request(MethodGet, "/unknown", <<>>, NoAuth)}

\* the patterns CreateApiObject registers for the collections named
Registration(names) == UNION {{"/" \o name, "/" \o name \o "/"} : name \in names}

\* the route tables setup leaves: widgets alone, or both collections
SetupTables == {Registration({"widgets"}), Registration(RestNames)}

\* a goroutine with no request
IdleHandling ==
    [req |-> NoReq, pc |-> "idle", ctx |-> Nil, calls |-> <<>>, resp |-> NoResp,
     root |-> NoLocals]

\* the handling of request r before RootApiHandler's first statement
Fresh(r) ==
    [req |-> r, pc |-> "root", ctx |-> Nil, calls |-> <<>>, resp |-> FreshResp,
     root |-> NoLocals]

\* every request pointing at one and the same url.URL
UrlShared(i) == 1

\* r.URL of the request of goroutine i: the server builds a url.URL for
\* every request it reads
UrlOf(i) == i

\* what goroutine i sees: its own request state, and r.URL.Path through
\* the pointer r.URL
Load(i) == [inflight[i] EXCEPT !.req.Path = urls[UrlOf(i)]]

\* goroutine i's step leaves st: an assignment to r.URL.Path lands in the
\* url.URL the request points to
Store(i, st) ==
    /\ inflight' = [inflight EXCEPT ![i] = st]
    /\ urls' = [urls EXCEPT ![UrlOf(i)] = st.req.Path]

\* setup is over: collections are registered, the resolver is installed
InitConc ==
    /\ FilterIdle /\ PathIdle
    /\ entityServeMux \in SetupTables
    /\ getRequestor = "set"
    /\ serving = TRUE
    /\ req = NoReq /\ pc = "idle" /\ ctx = Nil /\ calls = <<>> /\ resp = NoResp
    /\ inflight = [i \in Goroutines |-> IdleHandling]
    /\ urls = [i \in Goroutines |-> ""]

ConcReceive(i) ==
    /\ serving
    /\ inflight[i].pc = "idle"
    /\ \E r \in ConcRequests :
           /\ inflight' = [inflight EXCEPT ![i] = Fresh(r)]
           /\ urls' = [urls EXCEPT ![i] = r.Path]
    /\ UNCHANGED <<serverVars, filterVars, pathVars>>

ConcRootFirst(i) ==
    /\ inflight[i].pc = "root"
    /\ Store(i, RootFirst(entityServeMux, Load(i)))
    /\ UNCHANGED <<serverVars, filterVars, pathVars>>

ConcRootSecond(i) ==
    /\ inflight[i].pc = "root1"
    /\ Store(i, RootSecond(entityServeMux, Load(i)))
    /\ UNCHANGED <<serverVars, filterVars, pathVars>>

ConcRootThird(i) ==
    /\ inflight[i].pc = "root2"
    /\ Store(i, RootThird(Load(i)))
    /\ UNCHANGED <<serverVars, filterVars, pathVars>>

ConcCors(i) ==
    /\ inflight[i].pc = "cors"
    /\ Store(i, applyCorsHeaders(Load(i)))
    /\ UNCHANGED <<serverVars, filterVars, pathVars>>

ConcSecurity(i) ==
    /\ inflight[i].pc = "security"
    /\ Store(i, applySecurity(getRequestor, Load(i)))
    /\ UNCHANGED <<serverVars, filterVars, pathVars>>

ConcPlural(i) ==
    /\ inflight[i].pc = "handler"
    /\ inflight[i].req.route.kind = "plural"
    /\ \E a \in Answers(Load(i)) : Store(i, getPluralHandler(Load(i), a))
    /\ UNCHANGED <<serverVars, filterVars, pathVars>>

ConcSingular(i) ==
    /\ inflight[i].pc = "handler"
    /\ inflight[i].req.route.kind = "singular"
    /\ \E a \in Answers(Load(i)) : Store(i, getSingularHandler(Load(i), a))
    /\ UNCHANGED <<serverVars, filterVars, pathVars>>

NextConc ==
    \E i \in Goroutines :
        \/ ConcReceive(i)
        \/ ConcRootFirst(i)
        \/ ConcRootSecond(i)
        \/ ConcRootThird(i)
        \/ ConcCors(i)
        \/ ConcSecurity(i)
        \/ ConcPlural(i)
        \/ ConcSingular(i)

SpecConc == InitConc /\ [][NextConc]_vars

----------------------------------------------------------------------------
(* Claims about the query-filter parser, checked under SpecFilter *)

ComparatorPrefixes == {"lt.", "lteq.", "eq.", "gt.", "gteq."}
ReservedKeys == {"page", "count", "sort"}

\* the comparator a prefix stands for
ComparatorOf(p) ==
    CASE p = "lt." -> LT [] p = "lteq." -> LTEQ [] p = "eq." -> EQ
      [] p = "gt." -> GT [] p = "gteq." -> GTEQ

HasComparatorPrefix(v) == \E p \in ComparatorPrefixes : HasPrefix(v, p)

\* the longest comparator prefix v starts with
LongestPrefix(v) ==
    CHOOSE p \in ComparatorPrefixes :
        /\ HasPrefix(v, p)
        /\ \A o \in ComparatorPrefixes : HasPrefix(v, o) => Len(o) <= Len(p)

Returned == popOut.ran /\ ~popOut.panicked

\* C1: for every set of query parameters the parser runs to completion and
\* returns a CollectionFilter with no error: no input aborts the request.
C1_ParseNeverAborts ==
    popOut.ran => (~popOut.panicked /\ popOut.err = "nil")

\* C2: whenever the parser returns, every value <prefix><rest> of a
\* non-reserved key k has a PropertyFilter with field name k whose value is
\* exactly <rest>.
C2_ValueIsRemainder ==
    Returned =>
        \A i \in 1..Len(query) :
            \A p \in ComparatorPrefixes :
                (query[i][1] \notin ReservedKeys /\ HasPrefix(query[i][2], p)) =>
                    \E f \in Range(popOut.cf.PropFilters) :
                        /\ f.FieldName = query[i][1]
                        /\ f.Value = SliceFrom(query[i][2], Len(p))

\* C3: whenever the parser returns, page is present exactly when the key was
\* supplied and its first value parsed as a signed integer, and count is
\* present exactly when its first value parsed as an unsigned integer.
C3_UnparsedPageCountAbsent ==
    Returned =>
        LET q == Query(query)
        IN  /\ ~popOut.cf.Page.isNil <=>
                   ("page" \in DOMAIN q /\ ~ParseInt(q["page"][1]).err)
            /\ ~popOut.cf.Count.isNil <=>
                   ("count" \in DOMAIN q /\ ~ParseUint(q["count"][1]).err)

\* the comparators the claim assigns to the values of key k, in order
ExpectedComps(va) ==
    LET hits == SelectSeq(va, HasComparatorPrefix)
    IN  [i \in 1..Len(hits) |-> ComparatorOf(LongestPrefix(hits[i]))]

\* the comparators the parsed filter holds for key k, in order
ParsedComps(k) ==
    LET mine == SelectSeq(popOut.cf.PropFilters, LAMBDA f : f.FieldName = k)
    IN  [i \in 1..Len(mine) |-> mine[i].Comp]

\* C4: for every property-filter value the comparator is that of the longest
\* matching prefix, and a value with none of the five prefixes yields no
\* PropertyFilter: per key, the parsed comparators are those of the prefixed
\* values, in order.
C4_LongestPrefixWins ==
    popOut.ran =>
        /\ ~popOut.panicked
        /\ \A k \in FilterKeys :
               ParsedComps(k) =
                   IF k \in DOMAIN Query(query) THEN ExpectedComps(Query(query)[k])
                   ELSE <<>>

\* the SortDirective of an element with a recognised prefix
DirectiveOf(ss) ==
    IF HasPrefix(ss, "asc.") THEN SortObj(ASC, SliceFrom(ss, 4))
    ELSE SortObj(DESC, SliceFrom(ss, 5))

ExpectedSort(sortString) ==
    LET hits == SelectSeq(Split(sortString, ","),
                          LAMBDA ss : HasPrefix(ss, "asc.") \/ HasPrefix(ss, "desc."))
    IN  [i \in 1..Len(hits) |-> DirectiveOf(hits[i])]

\* C5: for every sort value the parse completes and the sort sequence holds
\* exactly one SortDirective per element that begins with asc. or desc., in
\* the order of the elements; the other elements are skipped.
C5_SortDirectives ==
    (popOut.ran /\ "sort" \in DOMAIN Query(query)) =>
        /\ ~popOut.panicked
        /\ popOut.cf.Sort = ExpectedSort(Query(query)["sort"][1])

----------------------------------------------------------------------------
(* Claims about the identifier-path parser, checked under SpecPath *)

\* the segments of the parsed path, the leading empty one discarded
Segs == PathComponents(urlPath)

\* the number of (name, identifier) pairs before the terminal name
NumPairs == (Len(Segs) - 1) \div 2

PairName(j) == Segs[2 * j - 1]
PairId(j) == Segs[2 * j]

OddShape == Len(Segs) % 2 = 1
AllIdsValid == \A j \in 1..NumPairs : ~FromString(PairId(j)).err

\* C6: a path with an even segment count fails with pathComponentError
\* carrying the path and an empty map; a path with an odd segment count
\* whose identifier segments are all valid UUIDs succeeds.
C6_EvenCountIsShapeError ==
    pathOut.ran =>
        /\ ~OddShape =>
               (pathOut.err = pathComponentError(urlPath) /\ pathOut.uuids = EmptyMap)
        /\ (OddShape /\ AllIdsValid) => pathOut.err = NilError

\* /foo/bar has two segments and was refused
C6_Witness ==
    /\ pathOut.ran
    /\ urlPath = "/foo/bar"
    /\ pathOut.err = pathComponentError("/foo/bar")

\* C7 as first stated: a valid plural path with N pairs, repeated names
\* included, parses to a map of exactly N entries, each pair's name mapped to
\* its identifier.
C7_ExactlyNEntries ==
    (pathOut.ran /\ OddShape /\ AllIdsValid) =>
        /\ Cardinality(DOMAIN pathOut.uuids) = NumPairs
        /\ \A j \in 1..NumPairs :
               /\ PairName(j) \in DOMAIN pathOut.uuids
               /\ pathOut.uuids[PairName(j)] = FromString(PairId(j)).uuid

\* path construction: /name/identifier for every entry of the map, in some
\* order of its keys, then the terminal name
RECURSIVE BuildPairs(_, _)
BuildPairs(m, order) ==
    IF Len(order) = 0 THEN ""
    ELSE BuildPairs(m, SubSeq(order, 1, Len(order) - 1))
             \o "/" \o order[Len(order)] \o "/" \o m[order[Len(order)]]

BuildPath(m, order, terminal) == BuildPairs(m, order) \o "/" \o terminal

\* the last pair that carries the name of pair j
LastPairNamed(name) ==
    CHOOSE j \in 1..NumPairs :
        /\ PairName(j) = name
        /\ \A l \in 1..NumPairs : PairName(l) = name => l <= j

\* C7, amended: a valid plural path parses to a map with one entry per
\* distinct pair name, mapped to the identifier of the last pair with that
\* name: exactly N entries when the N pair names are distinct. Building a
\* path from the returned map (names hold no "/") in any key order, with
\* the terminal name, and parsing it returns the same map.
C7_OneEntryPerDistinctName ==
    (pathOut.ran /\ OddShape /\ AllIdsValid) =>
        /\ pathOut.err = NilError
        /\ DOMAIN pathOut.uuids = {PairName(j) : j \in 1..NumPairs}
        /\ \A name \in DOMAIN pathOut.uuids :
               pathOut.uuids[name] = FromString(PairId(LastPairNamed(name))).uuid
        /\ (\A j, l \in 1..NumPairs : PairName(j) = PairName(l) => j = l) =>
               Cardinality(DOMAIN pathOut.uuids) = NumPairs
        /\ \A order \in Orders(DOMAIN pathOut.uuids) :
               getPathComponentUuids(BuildPath(pathOut.uuids, order, Segs[Len(Segs)]))
                   = [ran |-> TRUE, uuids |-> pathOut.uuids, err |-> NilError]

\* /foo/<uuid1>/foo/<uuid2>/bar: two pairs, one name, one entry
C7_Witness ==
    /\ pathOut.ran
    /\ urlPath = "/foo/" \o Uuid1 \o "/foo/" \o Uuid2 \o "/bar"
    /\ pathOut.err = NilError
    /\ DOMAIN pathOut.uuids = {"foo"}
    /\ pathOut.uuids["foo"] = Lower(Uuid2)

\* the first pair whose identifier is no UUID
FirstInvalidPair == CHOOSE j \in 1..NumPairs :
    /\ FromString(PairId(j)).err
    /\ \A l \in 1..(j - 1) : ~FromString(PairId(l)).err

\* C8: on an odd-segment path with an invalid identifier the parser returns
\* parseUUIDError carrying the name of the first invalid pair, and an empty
\* map: entries of earlier valid pairs are not returned.
C8_FirstInvalidIdentifier ==
    (pathOut.ran /\ OddShape /\ ~AllIdsValid) =>
        /\ pathOut.err = parseUUIDError(PairName(FirstInvalidPair))
        /\ pathOut.uuids = EmptyMap

\* /foo/<uuid1>/bar/42/foo: the valid pair foo is dropped, bar is reported
C8_Witness ==
    /\ pathOut.ran
    /\ urlPath = "/foo/" \o Uuid1 \o "/bar/42/foo"
    /\ pathOut.err = parseUUIDError("bar")
    /\ pathOut.uuids = EmptyMap

----------------------------------------------------------------------------
(* Claims about the route resolver and the handler chain, checked under Spec *)

\* name was registered by CreateApiObject
Registered(name) == ("/" \o name) \in entityServeMux

\* RootApiHandler has decided the route of the request in flight
Resolved == req.present /\ req.route.kind # "none"

FinalSegment == Split(req.Path, "/")[Len(Split(req.Path, "/"))]

\* the second-to-last segment: the empty string before the leading slash of
\* a one-segment path
PenultimateSegment ==
    IF Len(Split(req.Path, "/")) >= 2
    THEN Split(req.Path, "/")[Len(Split(req.Path, "/")) - 1]
    ELSE ""

\* the one outcome the claim assigns to the request in flight
ExpectedRoute ==
    IF Registered(FinalSegment) THEN [kind |-> "plural", ec |-> FinalSegment]
    ELSE IF Registered(PenultimateSegment)
    THEN [kind |-> "singular", ec |-> PenultimateSegment]
    ELSE [kind |-> "notfound"]

\* C9: every request is routed to exactly one outcome: Plural handling by
\* the collection named by the final segment if registered, else Singular
\* handling by the collection named by the second-to-last segment if
\* registered, else not-found.
C9_RouteResolution ==
    Resolved =>
        /\ req.route = ExpectedRoute
        /\ req.route.kind = "notfound" => resp.status = StatusNotFound

\* missing or invalid credentials: 401 Unauthorized and 403 Forbidden
UnauthorizedClass == {StatusUnauthorized, StatusForbidden}

\* the request in flight carries no credentials, or credentials the
\* installed resolver rejects
CredentialsRefused ==
    \/ ~req.Auth.ok
    \/ /\ req.Auth.ok
       /\ getRequestor = "set"
       /\ Resolver(req.Auth.uname, req.Auth.pword).err

\* C10: CreateEntity is invoked only after getRequestor returned an identity
\* without error for the request's credentials, and with that identity as
\* requestor; a GET, PUT, POST or DELETE request routed to a collection
\* handler with missing or rejected credentials ends with a status of the
\* unauthorized class and invokes no entity-collection operation.
C10_CreateAfterIdentity ==
    /\ \A i \in 1..Len(calls) :
           calls[i].op = "CreateEntity" =>
               \E j \in 1..(i - 1) :
                   /\ calls[j].op = "getRequestor"
                   /\ ~calls[j].err
                   /\ req.Auth.ok
                   /\ calls[j].uname = req.Auth.uname
                   /\ calls[j].pword = req.Auth.pword
                   /\ calls[i].requestor = calls[j].requestor
                   /\ ~calls[i].requestor.isNil
    /\ (/\ pc = "done"
        /\ req.route.kind \in {"plural", "singular"}
        /\ req.Method \in {MethodGet, MethodPut, MethodPost, MethodDelete}
        /\ CredentialsRefused) =>
           /\ resp.status \in UnauthorizedClass
           /\ \A i \in 1..Len(calls) : calls[i].op \notin EntityOps

\* alice's POST created an entity: the resolver answered first, and its
\* identity is the requestor CreateEntity was given
C10_Witness ==
    /\ pc = "done"
    /\ resp.status = StatusCreated
    /\ Len(calls) = 2
    /\ calls[1].op = "getRequestor"
    /\ calls[2].op = "CreateEntity"
    /\ calls[2].requestor = Ptr("alice")

\* the request in flight was served by a collection's handler
RoutedToCollection == req.present /\ req.route.kind \in {"plural", "singular"}

\* the three headers of a preflight answer, and nothing else
PreflightHeaders ==
    HeaderAdd(HeaderAdd(HeaderAdd(NoHeaders,
        "Access-Control-Allow-Origin", AllowOrigin),
        "Access-Control-Allow-Headers", "Authorization"),
        "Access-Control-Allow-Methods", "GET, PUT, POST, DELETE")

\* C11: an OPTIONS request routed to a collection's plural or singular
\* handler, with or without credentials, never calls the identity resolver,
\* never reads the body and invokes no entity-collection operation; its
\* response has the allowed origin, headers and methods headers and nothing
\* else: no other header, no body, no error status.
C11_PreflightBypass ==
    (RoutedToCollection /\ req.Method = MethodOptions) =>
        /\ calls = <<>>
        /\ ctx = Nil
        /\ req.bodyRead = "unread"
        /\ pc \in {"cors", "done"}
        /\ pc = "done" =>
               resp = [status |-> StatusOK, headers |-> PreflightHeaders,
                       body |-> NoBody, aborted |-> FALSE]

\* a preflight request with credentials on a singular route was answered
C11_Witness ==
    /\ pc = "done"
    /\ req.Method = MethodOptions
    /\ req.route = [kind |-> "singular", ec |-> "widgets"]
    /\ req.Auth.ok
    /\ resp.headers = PreflightHeaders
    /\ calls = <<>>

\* the entity-collection operations invoked for the request in flight
EntityCalls == SelectSeq(calls, LAMBDA c : c.op \in EntityOps)

\* the request in flight carries credentials the installed resolver accepts
Authenticated ==
    /\ req.Auth.ok
    /\ getRequestor = "set"
    /\ ~Resolver(req.Auth.uname, req.Auth.pword).err

\* the path the client sent has the plural shape with valid identifiers
WellFormedPlural == getPathComponentUuids(req.RequestURI).err = NilError

ClientErrorClass == 400..499

\* C12: an authenticated POST to a well-formed plural path reads the body;
\* if the read fails CreateEntity is not invoked; otherwise CreateEntity is
\* invoked exactly once, with the parent-identifier map parsed from the path
\* and the request body. If it succeeds the status is 201 Created, Location
\* is the path it returned, and there is no body; if it fails the status is a
\* client error and there is no Location header.
C12_CreateOutcome ==
    (/\ pc = "done"
     /\ RoutedToCollection /\ req.route.kind = "plural"
     /\ req.Method = MethodPost
     /\ Authenticated /\ WellFormedPlural) =>
        /\ req.bodyRead \in {"read", "failed"}
        /\ req.bodyRead = "failed" => EntityCalls = <<>>
        /\ req.bodyRead = "read" =>
               /\ Len(EntityCalls) = 1
               /\ EntityCalls[1].op = "CreateEntity"
               /\ EntityCalls[1].parentEntityUuids =
                      getPathComponentUuids(req.RequestURI).uuids
               /\ EntityCalls[1].body = req.Body
               /\ ~EntityCalls[1].err =>
                      /\ resp.status = StatusCreated
                      /\ "Location" \in DOMAIN resp.headers
                      /\ resp.headers["Location"] = <<EntityCalls[1].entityPath>>
                      /\ resp.body = NoBody
               /\ EntityCalls[1].err =>
                      /\ resp.status \in ClientErrorClass
                      /\ "Location" \notin DOMAIN resp.headers

\* alice's POST /gadgets/<uuid>/widgets created a widget under that gadget
C12_Witness ==
    /\ pc = "done"
    /\ req.Method = MethodPost
    /\ req.RequestURI = "/gadgets/" \o Uuid1 \o "/widgets"
    /\ Len(EntityCalls) = 1
    /\ EntityCalls[1].parentEntityUuids = MapPut(EmptyMap, "gadgets", Uuid1)
    /\ EntityCalls[1].body = ReqBody
    /\ resp.status = StatusCreated
    /\ resp.headers["Location"] = <<"/widgets/" \o Uuid1>>

\* an entity-collection operation was invoked for the request in flight and
\* returned an error
OperationFailed == Len(EntityCalls) > 0 /\ EntityCalls[Len(EntityCalls)].err

FailedOperation == EntityCalls[Len(EntityCalls)].op

BadRequestClass == {StatusBadRequest}
ServerErrorClass == 500..599
SuccessClass == 200..299

\* the response carries no serialized entity or collection
NoEntityBody == resp.body.kind \notin {"entity", "collection"}

\* C13 as first stated: whenever the invoked entity-collection operation
\* returned an error, the status is of the bad-request or the server-error
\* class, never a success nor any other class such as not-found, and no
\* entity or collection body is written.
C13_OperationErrorClass ==
    (pc = "done" /\ OperationFailed) =>
        /\ resp.status \in BadRequestClass \cup ServerErrorClass
        /\ NoEntityBody

\* C13, amended: whenever the invoked entity-collection operation returned
\* an error, the status is of the bad-request or the server-error class, or
\* 404 Not Found when the operation is GetCollection; it is never a success,
\* and no entity or collection body is written.
C13_OperationErrorStatus ==
    (pc = "done" /\ OperationFailed) =>
        /\ IF FailedOperation = "GetCollection"
           THEN resp.status = StatusNotFound
           ELSE resp.status \in BadRequestClass \cup ServerErrorClass
        /\ resp.status \notin SuccessClass
        /\ NoEntityBody
        /\ ~resp.aborted

\* GetCollection failed for GET /widgets and the answer was 404
C13_Witness ==
    /\ pc = "done"
    /\ req.Method = MethodGet
    /\ req.RequestURI = "/widgets"
    /\ OperationFailed
    /\ FailedOperation = "GetCollection"
    /\ resp.status = StatusNotFound
    /\ resp.body.kind = "error"

\* the segments of the path the client sent, the leading empty one discarded
SentSegs == PathComponents(req.RequestURI)

\* the request in flight got through corsHandler and securityHandler to the
\* plural or singular handler of a collection
ReachedHandler ==
    /\ RoutedToCollection
    /\ req.Method \in {MethodGet, MethodPut, MethodPost, MethodDelete}
    /\ Authenticated

\* the segment in an identifier position (the even ones) is no UUID
BadIdentifierBefore(n) == \E j \in 1..(n \div 2) : ~IsCanonicalUuid(SentSegs[2 * j])

\* not (name, identifier)* name
PluralMalformed == Len(SentSegs) % 2 # 1 \/ BadIdentifierBefore(Len(SentSegs) - 1)

\* not (name, identifier)* name identifier
SingularMalformed == Len(SentSegs) % 2 # 0 \/ BadIdentifierBefore(Len(SentSegs))

TerminalSegment == SentSegs[Len(SentSegs)]

NotFoundClass == {StatusNotFound}

\* C14 as first stated: for a request that reached a collection's handler,
\* a path with a wrong segment count or a malformed UUID, in a parent pair
\* of a plural path or in a singular path up to its terminal identifier,
\* ends in a not-found status with no entity-collection operation invoked.
C14_MalformedPathNotFound ==
    (/\ pc = "done"
     /\ ReachedHandler
     /\ \/ req.route.kind = "plural" /\ PluralMalformed
        \/ req.route.kind = "singular" /\ SingularMalformed) =>
        /\ resp.status \in NotFoundClass
        /\ EntityCalls = <<>>

\* C14, amended: for a request that reached the plural handler, a path with
\* an even segment count or a malformed parent UUID ends in 404 with no
\* operation invoked. For a request that reached the singular handler, a
\* terminal segment that is no UUID ends in 400 Bad Request with no
\* operation invoked; segment count and parent identifiers are not checked:
\* with a valid terminal identifier, GET and DELETE (and PUT once the body
\* is read) invoke their operation on it whatever the other segments are.
C14_PathErrorOutcome ==
    (pc = "done" /\ ReachedHandler) =>
        /\ (req.route.kind = "plural" /\ PluralMalformed) =>
               (resp.status \in NotFoundClass /\ EntityCalls = <<>>)
        /\ (req.route.kind = "singular" /\ ~IsCanonicalUuid(TerminalSegment)) =>
               (resp.status = StatusBadRequest /\ EntityCalls = <<>>)
        /\ (/\ req.route.kind = "singular"
            /\ IsCanonicalUuid(TerminalSegment)
            /\ \/ req.Method \in {MethodGet, MethodDelete}
               \/ req.Method = MethodPut /\ req.bodyRead = "read") =>
               /\ Len(EntityCalls) = 1
               /\ EntityCalls[1].targetUuid = Lower(TerminalSegment)
               /\ resp.status \notin NotFoundClass

\* alice's GET /widgets/unknown reached the singular handler of widgets and
\* was refused with 400
C14_Witness ==
    /\ pc = "done"
    /\ ReachedHandler
    /\ req.Method = MethodGet
    /\ req.RequestURI = "/widgets/unknown"
    /\ req.route = [kind |-> "singular", ec |-> "widgets"]
    /\ resp.status = StatusBadRequest
    /\ EntityCalls = <<>>

\* the operation the handler of a route kind invokes for a method
HasOperation(kind, method) ==
    \/ kind = "singular" /\ method \in {MethodGet, MethodPut, MethodDelete}
    \/ kind = "plural" /\ method \in {MethodGet, MethodPost}

OperationOf(kind, method) ==
    CASE kind = "singular" /\ method = MethodGet -> "GetEntity"
      [] kind = "singular" /\ method = MethodPut -> "EditEntity"
      [] kind = "singular" /\ method = MethodDelete -> "DelEntity"
      [] kind = "plural" /\ method = MethodGet -> "GetCollection"
      [] kind = "plural" /\ method = MethodPost -> "CreateEntity"

\* C16: every request invokes at most one entity-collection operation, on
\* the collection it was routed to, and the operation is the one of its
\* (route kind, method): singular GET GetEntity, singular PUT EditEntity,
\* singular DELETE DelEntity, plural GET GetCollection, plural POST
\* CreateEntity; any other combination invokes none. The wrapped handlers
\* run with r.URL.Path restored to the path the client sent, and the
\* operation receives the identifiers parsed from that path.
C16_OneOperationPerRequest ==
    /\ Len(EntityCalls) <= 1
    /\ \A i \in 1..Len(EntityCalls) :
           /\ RoutedToCollection
           /\ HasOperation(req.route.kind, req.Method)
           /\ EntityCalls[i].op = OperationOf(req.route.kind, req.Method)
           /\ EntityCalls[i].ec = req.route.ec
           /\ IF req.route.kind = "plural"
              THEN EntityCalls[i].parentEntityUuids =
                       getPathComponentUuids(req.RequestURI).uuids
              ELSE EntityCalls[i].targetUuid = FromString(TerminalSegment).uuid
    /\ (req.present /\ pc = "done" /\ ~HasOperation(req.route.kind, req.Method)) =>
           EntityCalls = <<>>
    /\ (req.present /\ pc \in {"cors", "security", "handler"}) =>
           req.Path = req.RequestURI
    /\ (RoutedToCollection /\ pc = "done") => req.Path = req.RequestURI

\* alice's GET /gadgets/<uuid>/widgets listed the widgets of that gadget:
\* hypothesis testing had rewritten the path to /widgets
C16_Witness ==
    /\ pc = "done"
    /\ req.Method = MethodGet
    /\ req.RequestURI = "/gadgets/" \o Uuid1 \o "/widgets"
    /\ req.Path = req.RequestURI
    /\ Len(EntityCalls) = 1
    /\ EntityCalls[1].op = "GetCollection"
    /\ EntityCalls[1].ec = "widgets"
    /\ EntityCalls[1].parentEntityUuids = MapPut(EmptyMap, "gadgets", Uuid1)

----------------------------------------------------------------------------
(* Claims about concurrent handling, checked under SpecConc *)

\* the request of a handling as the client sent it
Sent(rq) == Request(rq.Method, rq.RequestURI, rq.Params, rq.Auth)

\* where the handling of request r alone can end: RootApiHandler, then the
\* handlers it serves the request by, run from start to end with nothing
\* in between
AloneOutcomes(mux, resolver, r) ==
    LET routed == RootApiHandler(mux, Fresh(r))
        cors == IF routed.pc = "cors" THEN applyCorsHeaders(routed) ELSE routed
        secured == IF cors.pc = "security" THEN applySecurity(resolver, cors) ELSE cors
    IN  IF secured.pc # "handler" THEN {secured}
        ELSE IF secured.req.route.kind = "plural"
        THEN {getPluralHandler(secured, a) : a \in Answers(secured)}
        ELSE {getSingularHandler(secured, a) : a \in Answers(secured)}

\* AloneOutcomes, tabulated for the route tables and requests of SpecConc
\* (the resolver is installed)
AloneTable ==
    [mux \in SetupTables |-> [r \in ConcRequests |-> AloneOutcomes(mux, "set", r)]]

\* every finished request ended as it can end when handled alone: same
\* route, same calls (parent-identifier map and filter included), same
\* response, and its own path in r.URL.Path
HandledAsAlone ==
    \A i \in Goroutines :
        inflight[i].pc = "done" =>
            /\ getRequestor = "set"
            /\ inflight[i] \in AloneTable[entityServeMux][Sent(inflight[i].req)]
            /\ inflight[i].req.route.kind \in {"plural", "singular"} =>
                   urls[i] = inflight[i].req.RequestURI

\* a step that writes the url.URL of request i is a step of goroutine i
PathWritesConfined ==
    \A i \in Goroutines :
        urls'[i] # urls[i] => \A j \in Goroutines \ {i} : inflight'[j] = inflight[j]

\* C15: in every interleaving of requests handled concurrently after setup,
\* no step of request handling changes the route table or the resolver
\* variable, the path rewrites of route resolution touch the request's own
\* URL only, and every request ends with the route, parent-identifier map
\* and filter it has when handled alone.
C15_RequestIsolation ==
    /\ []HandledAsAlone
    /\ [][entityServeMux' = entityServeMux /\ getRequestor' = getRequestor]_vars
    /\ [][PathWritesConfined]_vars

\* GET /gadgets/<uuid>/widgets?... has ended with its own parent map and
\* filter while the other goroutine's request is between its hypotheses,
\* its path rewritten to /widgets/
C15_Witness ==
    /\ inflight[1].pc = "done"
    /\ inflight[1].req.RequestURI = "/gadgets/" \o Uuid1 \o "/widgets"
    /\ Len(inflight[1].calls) = 2
    /\ inflight[1].calls[2].op = "GetCollection"
    /\ inflight[1].calls[2].parentEntityUuids = MapPut(EmptyMap, "gadgets", Uuid1)
    /\ ~inflight[1].calls[2].filter.Page.isNil
    /\ inflight[2].pc = "root2"
    /\ inflight[2].req.RequestURI = "/widgets/" \o Uuid1
    /\ urls[2] = "/widgets/"
    /\ urls[1] = "/gadgets/" \o Uuid1 \o "/widgets"

====
